---- MODULE Spec2Model ----
(***************************************************************************)
(* Model of the two dispatch benchmarks of                                 *)
(*   events/2020-04-29 No-Paradigm Programming/Strategy_Benchmark.cpp      *)
(*   events/2020-04-29 No-Paradigm Programming/Visitor_Benchmark.cpp       *)
(*                                                                         *)
(* Spec       : the lifetime machine of manual_function_solution::Function *)
(*              (construct, copy-construct, operator=, invoke, ~Function)  *)
(* SpecLayout : the object layout of Function::Model<Fn> in the buffer     *)
(* SpecBench  : the eight solution blocks of the two main() functions      *)
(***************************************************************************)
EXTENDS Integers, Sequences, FiniteSets, TLC

VARIABLES
    life,          \* Function object -> "unborn" | "alive" | "destroyed"
    pimpl,         \* Function::pimpl_ : address of the buffer it points into
    buffer,        \* Function::buffer : the Model<Fn> object placed in it
    destroyCount,  \* per payload object: number of ~Concept() calls on it
    frame,         \* the operator= call in progress, and its position
    origin,        \* the callable value a container's payload descends from
    attempt,       \* the last Function(Fn) instantiation and its outcome
    ret,           \* the last operator() call and what it produced
    lay,           \* SpecLayout: one instantiation Function<Sig,N> / Model<Fn>
    bench          \* SpecBench: the state of the benchmark's main()

vars == <<life, pimpl, buffer, destroyCount, frame, origin, attempt, ret, lay, bench>>

funVars == <<life, pimpl, buffer, destroyCount, frame, origin, attempt, ret>>

(***************************************************************************)
(* Bounds of the model                                                     *)
(***************************************************************************)
MaxContainers == 3   \* Function objects ever created in one run
MaxCapture == 2      \* values of the captured state of a stateful callable
MaxCoord == 0        \* coordinates of the object passed by reference
MaxStep == 1         \* components of the translation vector

(***************************************************************************)
(* Program constants                                                       *)
(***************************************************************************)
CapacityN == 8       \* Function<void(Circle&, const Vector3D&),8UL>
BufferExtra == 8     \* char buffer[N+8UL]

Containers == 1..MaxContainers
Null == 0

Min(S) == CHOOSE x \in S : \A y \in S : x <= y

(***************************************************************************)
(* Callable types Fn.  Translate is the repository's strategy (an empty    *)
(* class); the others stand for the callables a user of the template may   *)
(* pass: another empty class, a closure with one pointer-sized capture,    *)
(* one with two, and a closure capturing a Vector3D by value.              *)
(***************************************************************************)
FnTypes == {"Translate", "Negate", "Offset", "Pair", "Big"}

Sizeof(t) ==
    CASE t = "Translate" -> 1
      [] t = "Negate"    -> 1
      [] t = "Offset"    -> 8
      [] t = "Pair"      -> 16
      [] t = "Big"       -> 24
      [] OTHER           -> 0

Callables ==
    [type : {"Translate", "Negate", "Pair", "Big"}, state : {0}]
        \cup [type : {"Offset"}, state : 1..MaxCapture]

Targets == 0..MaxCoord
Vectors == 1..MaxStep

\* fn( target, v ): the callable's own call operator, R = void, the first
\* argument passed by reference.
FnCall(fn, target, v) ==
    [ret |-> "void",
     target |-> CASE fn.type = "Translate" -> target + v
                  [] fn.type = "Negate"    -> target - v
                  [] fn.type = "Offset"    -> target + v + fn.state
                  [] fn.type = "Pair"      -> target + 2 * v
                  [] fn.type = "Big"       -> target + 3 * v
                  [] OTHER                 -> target]

\* static_assert( sizeof(Fn) <= N, "Given type is too large" )
SizeCheckAgainstBuffer(size, n) == size <= n + BufferExtra

SizeCheck(size, n) == size <= n

(***************************************************************************)
(* Memory: M = [buffer, destroyCount].  A buffer cell keeps its bytes      *)
(* (vptr, fn) after the object in it has been destroyed.                   *)
(***************************************************************************)
NoPayload == [live |-> FALSE, vptr |-> "none", fn |-> 0, pid |-> 0]

Mem == [buffer |-> buffer, destroyCount |-> destroyCount]

\* reinterpret_cast<Concept*>( buffer ) of container c
BufferOf(c) == c

\* new (addr) Model<Fn>( fn ): a new payload object at addr
PlacementNew(M, addr, type, state) ==
    [buffer |-> [M.buffer EXCEPT ![addr] =
                    [live |-> TRUE, vptr |-> type, fn |-> state,
                     pid |-> Len(M.destroyCount) + 1]],
     destroyCount |-> Append(M.destroyCount, 0)]

\* addr->~Concept(): the destructor call is counted on the object that is
\* (or, after a double destroy, was) at addr
DestroyPayload(M, addr) ==
    [buffer |-> [M.buffer EXCEPT ![addr].live = FALSE],
     destroyCount |-> IF M.buffer[addr].pid = 0 THEN M.destroyCount
                      ELSE [M.destroyCount EXCEPT ![M.buffer[addr].pid] = @ + 1]]

\* Fn's copy constructor (fn_( fn ), Model( fn_ )): value semantics
FnCopy(state) == state

\* from->clone( to ): new (to) Model( fn_ ), dispatched on from's vptr
ModelCloneDefault(M, from, to) ==
    PlacementNew(M, to, M.buffer[from].vptr, 0)

ModelClone(M, from, to) ==
    PlacementNew(M, to, M.buffer[from].vptr, FnCopy(M.buffer[from].fn))

\* (*p)( args... ): Model<Fn>::operator() dispatched on the vptr, calling fn_
ModelCallDefaultFn(p, target, v) == FnCall([type |-> p.vptr, state |-> 0], target, v)

ModelCall(p, target, v) == FnCall([type |-> p.vptr, state |-> p.fn], target, v)

\* No operator= call in progress.  In a call: self is *this, f the by-value
\* parameter, arg the container the caller named (Null when the caller passed
\* a callable), old the payload *this held when the call began.
Idle == [pc |-> "idle", self |-> Null, f |-> Null, arg |-> Null, old |-> NoPayload]

Fresh == {c \in Containers : life[c] = "unborn"}
Alive == {c \in Containers : life[c] = "alive"}

\* attempt and ret describe the operation just performed: every other
\* operation resets them.
NoAttempt == [fn |-> [type |-> "none", state |-> 0], outcome |-> "none"]
NoRet == [c |-> Null, target |-> 0, v |-> 0, out |-> [ret |-> "none", target |-> 0]]

InitFun ==
    /\ life = [c \in Containers |-> "unborn"]
    /\ pimpl = [c \in Containers |-> Null]
    /\ buffer = [c \in Containers |-> NoPayload]
    /\ destroyCount = <<>>
    /\ frame = Idle
    /\ origin = [c \in Containers |-> [type |-> "none", state |-> 0]]
    /\ attempt = NoAttempt
    /\ ret = NoRet

NoLayout == [n |-> 0, size |-> 0, align |-> 0, placed |-> 0, cloned |-> 0]
NoBench == [pc |-> "off"]

Init == InitFun /\ lay = NoLayout /\ bench = NoBench

\* Function( Function const& f ) : pimpl_{ reinterpret_cast<Concept*>( buffer ) }
CopyPimplShallow(c, src) == pimpl[src]

CopyPimpl(c, src) == BufferOf(c)

\* Function& operator=( Function f ): the parameter is taken by value
ParamByReference == FALSE

ParamByValue == TRUE

\* The statements of operator= in program order: the call (which builds the
\* parameter f), pimpl_->~Concept(), f.pimpl_->clone( pimpl_ ), the return
\* (which destroys f).
AssignPcAfterSwapped(pc) ==
    CASE pc = "call"    -> "clone"
      [] pc = "clone"   -> "destroy"
      [] pc = "destroy" -> "return"
      [] OTHER          -> "idle"

AssignPcAfterNoClone(pc) ==
    CASE pc = "call"    -> "destroy"
      [] pc = "destroy" -> "return"
      [] OTHER          -> "idle"

AssignPcAfterNoDestroy(pc) ==
    CASE pc = "call"    -> "clone"
      [] pc = "clone"   -> "return"
      [] OTHER          -> "idle"

AssignPcAfter(pc) ==
    CASE pc = "call"    -> "destroy"
      [] pc = "destroy" -> "clone"
      [] pc = "clone"   -> "return"
      [] OTHER          -> "idle"

\* Function( Fn fn ): pimpl_ = buffer, static_assert, placement new
Construct(fn) ==
    /\ frame.pc = "idle"
    /\ Fresh # {}
    /\ IF SizeCheck(Sizeof(fn.type), CapacityN)
       THEN LET c == Min(Fresh)
                p == BufferOf(c)
                M == PlacementNew(Mem, p, fn.type, FnCopy(fn.state))
            IN /\ pimpl' = [pimpl EXCEPT ![c] = p]
               /\ buffer' = M.buffer
               /\ destroyCount' = M.destroyCount
               /\ life' = [life EXCEPT ![c] = "alive"]
               /\ origin' = [origin EXCEPT ![c] = fn]
               /\ attempt' = [fn |-> fn, outcome |-> "ok"]
       ELSE /\ attempt' = [fn |-> fn, outcome |-> "static_assert"]
            /\ UNCHANGED <<life, pimpl, buffer, destroyCount, origin>>
    /\ ret' = NoRet
    /\ UNCHANGED <<frame, lay, bench>>

\* Function( Function const& f ): pimpl_ = buffer, f.pimpl_->clone( pimpl_ )
CopyConstruct(src) ==
    /\ frame.pc = "idle"
    /\ src \in Alive
    /\ Fresh # {}
    /\ LET c == Min(Fresh)
           p == CopyPimpl(c, src)
           M == ModelClone(Mem, pimpl[src], p)
       IN /\ pimpl' = [pimpl EXCEPT ![c] = p]
          /\ buffer' = M.buffer
          /\ destroyCount' = M.destroyCount
          /\ life' = [life EXCEPT ![c] = "alive"]
          /\ origin' = [origin EXCEPT ![c] = origin[src]]
    /\ attempt' = NoAttempt /\ ret' = NoRet
    /\ UNCHANGED <<frame, lay, bench>>

\* ~Function(): pimpl_->~Concept()
Destroy(c) ==
    /\ frame.pc = "idle"
    /\ c \in Alive
    /\ LET M == DestroyPayload(Mem, pimpl[c])
       IN /\ buffer' = M.buffer
          /\ destroyCount' = M.destroyCount
    /\ life' = [life EXCEPT ![c] = "destroyed"]
    /\ attempt' = NoAttempt /\ ret' = NoRet
    /\ UNCHANGED <<pimpl, frame, origin, lay, bench>>

\* R operator()( Args... args ): return (*pimpl_)( std::forward<Args>( args )... )
Invoke(c, target, v) ==
    /\ frame.pc = "idle"
    /\ c \in Alive
    /\ ret' = [c |-> c, target |-> target, v |-> v,
               out |-> ModelCall(buffer[pimpl[c]], target, v)]
    /\ attempt' = NoAttempt
    /\ UNCHANGED <<life, pimpl, buffer, destroyCount, frame, origin, lay, bench>>

\* dst = src: the call copy-constructs the by-value parameter f from src
AssignCall(dst, src) ==
    /\ frame.pc = "idle"
    /\ dst \in Alive
    /\ src \in Alive
    /\ IF ParamByValue
       THEN /\ Fresh # {}
            /\ LET f == Min(Fresh)
                   p == CopyPimpl(f, src)
                   M == ModelClone(Mem, pimpl[src], p)
               IN /\ pimpl' = [pimpl EXCEPT ![f] = p]
                  /\ buffer' = M.buffer
                  /\ destroyCount' = M.destroyCount
                  /\ life' = [life EXCEPT ![f] = "alive"]
                  /\ origin' = [origin EXCEPT ![f] = origin[src]]
                  /\ frame' = [pc |-> AssignPcAfter("call"), self |-> dst,
                               f |-> f, arg |-> src, old |-> buffer[pimpl[dst]]]
       ELSE /\ frame' = [pc |-> AssignPcAfter("call"), self |-> dst,
                         f |-> src, arg |-> src, old |-> buffer[pimpl[dst]]]
            /\ UNCHANGED <<life, pimpl, buffer, destroyCount, origin>>
    /\ attempt' = NoAttempt /\ ret' = NoRet
    /\ UNCHANGED <<lay, bench>>

\* dst = fn: the call builds the by-value parameter f with Function( Fn fn )
AssignCallFn(dst, fn) ==
    /\ frame.pc = "idle"
    /\ dst \in Alive
    /\ Fresh # {}
    /\ IF SizeCheck(Sizeof(fn.type), CapacityN)
       THEN LET f == Min(Fresh)
                p == BufferOf(f)
                M == PlacementNew(Mem, p, fn.type, FnCopy(fn.state))
            IN /\ pimpl' = [pimpl EXCEPT ![f] = p]
               /\ buffer' = M.buffer
               /\ destroyCount' = M.destroyCount
               /\ life' = [life EXCEPT ![f] = "alive"]
               /\ origin' = [origin EXCEPT ![f] = fn]
               /\ attempt' = [fn |-> fn, outcome |-> "ok"]
               /\ frame' = [pc |-> AssignPcAfter("call"), self |-> dst,
                            f |-> f, arg |-> Null, old |-> buffer[pimpl[dst]]]
       ELSE /\ attempt' = [fn |-> fn, outcome |-> "static_assert"]
            /\ UNCHANGED <<life, pimpl, buffer, destroyCount, origin, frame>>
    /\ ret' = NoRet
    /\ UNCHANGED <<lay, bench>>

\* pimpl_->~Concept();
AssignDestroy ==
    /\ frame.pc = "destroy"
    /\ LET M == DestroyPayload(Mem, pimpl[frame.self])
       IN /\ buffer' = M.buffer
          /\ destroyCount' = M.destroyCount
    /\ frame' = [frame EXCEPT !.pc = AssignPcAfter("destroy")]
    /\ UNCHANGED <<life, pimpl, origin, attempt, ret, lay, bench>>

\* f.pimpl_->clone( pimpl_ );
AssignClone ==
    /\ frame.pc = "clone"
    /\ LET M == ModelClone(Mem, pimpl[frame.f], pimpl[frame.self])
       IN /\ buffer' = M.buffer
          /\ destroyCount' = M.destroyCount
    /\ origin' = [origin EXCEPT ![frame.self] = origin[frame.f]]
    /\ frame' = [frame EXCEPT !.pc = AssignPcAfter("clone")]
    /\ UNCHANGED <<life, pimpl, attempt, ret, lay, bench>>

\* return *this; the parameter f goes out of scope: ~Function() on f
AssignReturn ==
    /\ frame.pc = "return"
    /\ IF ParamByValue
       THEN /\ LET M == DestroyPayload(Mem, pimpl[frame.f])
               IN /\ buffer' = M.buffer
                  /\ destroyCount' = M.destroyCount
            /\ life' = [life EXCEPT ![frame.f] = "destroyed"]
       ELSE UNCHANGED <<life, buffer, destroyCount>>
    /\ frame' = Idle
    /\ UNCHANGED <<pimpl, origin, attempt, ret, lay, bench>>

\* Circle( double r, TranslateStrategy ts ) : strategy{ std::move(ts) } {}
\* called as make_unique<Circle>( r, fn ): the parameter ts is built from fn,
\* strategy is copy-constructed from it (Function has no move constructor),
\* and ts is destroyed when the constructor returns.  Square is the same.
ShapeCtor(fn) ==
    /\ frame.pc = "idle"
    /\ Cardinality(Fresh) >= 2
    /\ SizeCheck(Sizeof(fn.type), CapacityN)
    /\ LET ts == Min(Fresh)
           strategy == Min(Fresh \ {ts})
           pts == BufferOf(ts)
           ps == CopyPimpl(strategy, ts)
           M1 == PlacementNew(Mem, pts, fn.type, FnCopy(fn.state))
           M2 == ModelClone(M1, pts, ps)
           M3 == DestroyPayload(M2, pts)
       IN /\ pimpl' = [pimpl EXCEPT ![ts] = pts, ![strategy] = ps]
          /\ buffer' = M3.buffer
          /\ destroyCount' = M3.destroyCount
          /\ life' = [life EXCEPT ![ts] = "destroyed", ![strategy] = "alive"]
          /\ origin' = [origin EXCEPT ![ts] = fn, ![strategy] = fn]
    /\ attempt' = [fn |-> fn, outcome |-> "ok"]
    /\ ret' = NoRet
    /\ UNCHANGED <<frame, lay, bench>>

Next ==
    \/ \E fn \in Callables : Construct(fn)
    \/ \E src \in Containers : CopyConstruct(src)
    \/ \E c \in Containers : Destroy(c)
    \/ \E c \in Containers, t \in Targets, v \in Vectors : Invoke(c, t, v)
    \/ \E dst \in Containers, src \in Containers : AssignCall(dst, src)
    \/ \E dst \in Containers, fn \in Callables : AssignCallFn(dst, fn)
    \/ AssignDestroy
    \/ AssignClone
    \/ AssignReturn
    \/ \E fn \in Callables : ShapeCtor(fn)

Spec == Init /\ [][Next]_vars


(***************************************************************************)
(* SpecLayout: the size of the object that Function( Fn ) and clone place  *)
(* in char buffer[N+8UL].  Model<Fn> derives from the polymorphic Concept  *)
(* and has the one member Fn fn_; on the LP64 targets of the benchmark the *)
(* object starts with the pointer to the dispatch table, fn_ follows at    *)
(* the next offset aligned for Fn, and the size is rounded up to the       *)
(* alignment of the whole object.                                          *)
(***************************************************************************)
MaxCapacity == 12    \* capacities N instantiated
MaxAlignLog == 3     \* alignof(Fn) is 1, 2, .. 2^MaxAlignLog

VptrSize == 8        \* the "8UL" of char buffer[N+8UL]: one pointer

Pow2(k) == IF k = 0 THEN 1 ELSE IF k = 1 THEN 2 ELSE IF k = 2 THEN 4
           ELSE IF k = 3 THEN 8 ELSE IF k = 4 THEN 16 ELSE 32

RoundUp(x, a) == ((x + a - 1) \div a) * a

Max(a, b) == IF a >= b THEN a ELSE b

\* char buffer[N+8UL]
BufferSize(n) == n + BufferExtra

\* offsetof( Model<Fn>, fn_ ): after the dispatch-table pointer of Concept
OffsetOfFn(align) == RoundUp(VptrSize, align)

\* alignof( Model<Fn> )
AlignofModel(align) == Max(VptrSize, align)

\* sizeof( Model<Fn> )
SizeofModel(size, align) == RoundUp(OffsetOfFn(align) + size, AlignofModel(align))

\* The object types Fn: sizeof is a positive multiple of alignof.
FnLayouts ==
    {x \in [size : 1..(MaxCapacity + 8), align : {Pow2(k) : k \in 0..MaxAlignLog}] :
        x.size % x.align = 0}

InitLayout ==
    /\ InitFun
    /\ bench = NoBench
    /\ lay \in {[n |-> n, size |-> x.size, align |-> x.align, placed |-> 0, cloned |-> 0] :
                  n \in 1..MaxCapacity, x \in FnLayouts}

\* Function( Fn fn ): static_assert( sizeof(Fn) <= N ), new (pimpl_) Model<Fn>( fn )
LayoutConstruct ==
    /\ lay.placed = 0
    /\ SizeCheck(lay.size, lay.n)
    /\ lay' = [lay EXCEPT !.placed = SizeofModel(lay.size, lay.align)]
    /\ UNCHANGED <<funVars, bench>>

\* Model::clone( memory ): new (memory) Model( fn_ ) into another buffer[N+8UL]
LayoutClone ==
    /\ lay.placed > 0
    /\ lay.cloned = 0
    /\ lay' = [lay EXCEPT !.cloned = SizeofModel(lay.size, lay.align)]
    /\ UNCHANGED <<funVars, bench>>

NextLayout == LayoutConstruct \/ LayoutClone

SpecLayout == InitLayout /\ [][NextLayout]_vars

\* C6: for every capacity N and every callable type accepted by the size
\* check, the Model<Fn> object placed in the buffer by the constructor and by
\* clone occupies at most the buffer's N+8 bytes.
C6_ModelFitsBuffer ==
    /\ lay.placed <= BufferSize(lay.n)
    /\ lay.cloned <= BufferSize(lay.n)

\* The repository's own instantiation, N = 8UL, is within the buffer.
C6_FitsAtCapacity8 ==
    lay.n = CapacityN => C6_ModelFitsBuffer

(***************************************************************************)
(* SpecBench: the solution blocks of the two main() functions, run in turn *)
(* with one seed: classic, std::function and manual Function strategies    *)
(* (Strategy_Benchmark.cpp), then enum, object-oriented, visitor,          *)
(* std::variant and mpark::variant (Visitor_Benchmark.cpp).  A double is   *)
(* an integer count of 1/RngModulus; std::mt19937 is a full-period         *)
(* congruential generator, and dist( rng ) advances it and yields its      *)
(* state.                                                                  *)
(***************************************************************************)
NShapes == 2         \* const size_t N( 100UL ), scaled down
NSteps == 2          \* const size_t steps( 2500000UL ), scaled down
MaxSeed == 3         \* seeds rd() may return: 0..MaxSeed

RngModulus == 16
RngMultiplier == 5
RngIncrement == 3

\* dist( rng ): the generator's next state, which is also the value drawn
RngStep(r) == (RngMultiplier * r + RngIncrement) % RngModulus

\* the 0.5 of dist( rng ) < 0.5
Half == RngModulus \div 2

Blocks == <<"classic", "std_function", "manual_function", "enum",
            "object_oriented", "visitor", "std_variant", "mpark_variant">>

\* Vector3D{}: double x{}, y{}, z{}
Zero3D == [x |-> 0, y |-> 0, z |-> 0]

\* Vector3D{ dist( rng ), dist( rng ) }: z keeps its default member initializer
Vector2(x, y) == [x |-> x, y |-> y, z |-> 0]

\* Vector3D operator+( const Vector3D& a, const Vector3D& b )
VAddZFromY(a, b) == [x |-> a.x + b.x, y |-> a.y + b.y, z |-> a.z + b.y]

VAdd(a, b) == [x |-> a.x + b.x, y |-> a.y + b.y, z |-> a.z + b.z]

(* classic_solution *)
ClassicCircle(r) ==
    [class |-> "Circle", radius |-> r, center |-> Zero3D,
     strategy |-> "ConcreteTranslateStrategy"]

ClassicSquare(sd) ==
    [class |-> "Square", side |-> sd, center |-> Zero3D,
     strategy |-> "ConcreteTranslateStrategy"]

\* ConcreteTranslateStrategy::translate( Circle&, v ) / ( Square&, v )
ClassicStrategyTranslate(shape, v) ==
    CASE shape.class = "Circle" -> [shape EXCEPT !.center = VAdd(shape.center, v)]
      [] shape.class = "Square" -> [shape EXCEPT !.center = VAdd(shape.center, v)]

\* Circle::translate / Square::translate: strategy->translate( *this, v )
ClassicShapeTranslate(shape, v) ==
    CASE shape.strategy = "ConcreteTranslateStrategy" -> ClassicStrategyTranslate(shape, v)

ClassicTranslate(shapes, v) ==
    [i \in DOMAIN shapes |-> ClassicShapeTranslate(shapes[i], v)]

(* std_function_solution *)
StdFunctionCircle(r) ==
    [class |-> "Circle", radius |-> r, center |-> Zero3D, strategy |-> "Translate"]

StdFunctionSquare(sd) ==
    [class |-> "Square", side |-> sd, center |-> Zero3D, strategy |-> "Translate"]

\* translate( Circle&, v ) / translate( Square&, v )
StdFunctionFreeTranslate(shape, v) ==
    CASE shape.class = "Circle" -> [shape EXCEPT !.center = VAdd(shape.center, v)]
      [] shape.class = "Square" -> [shape EXCEPT !.center = VAdd(shape.center, v)]

\* Circle::translate: strategy( *this, v ), the std::function holding Translate{}
StdFunctionShapeTranslate(shape, v) ==
    CASE shape.strategy = "Translate" -> StdFunctionFreeTranslate(shape, v)

StdFunctionTranslate(shapes, v) ==
    [i \in DOMAIN shapes |-> StdFunctionShapeTranslate(shapes[i], v)]

(* manual_function_solution: the strategy is a Function holding Model<Translate> *)
ManualStrategy == [live |-> TRUE, vptr |-> "Translate", fn |-> 0]

ManualCircle(r) ==
    [class |-> "Circle", radius |-> r, center |-> Zero3D, strategy |-> ManualStrategy]

ManualSquare(sd) ==
    [class |-> "Square", side |-> sd, center |-> Zero3D, strategy |-> ManualStrategy]

\* translate( Circle&, v ) / translate( Square&, v )
ManualFreeTranslate(shape, v) ==
    CASE shape.class = "Circle" -> [shape EXCEPT !.center = VAdd(shape.center, v)]
      [] shape.class = "Square" -> [shape EXCEPT !.center = VAdd(shape.center, v)]

\* Circle::translate: strategy( *this, v ): Function::operator() to
\* Model<Translate>::operator() to Translate::operator()
ManualShapeTranslate(shape, v) ==
    CASE shape.strategy.vptr = "Translate" -> ManualFreeTranslate(shape, v)
      [] OTHER -> shape

ManualTranslate(shapes, v) ==
    [i \in DOMAIN shapes |-> ManualShapeTranslate(shapes[i], v)]

(* enum_solution *)
EnumCircle(r) ==
    [class |-> "Circle", type |-> "circle", radius |-> r, center |-> Zero3D]

EnumSquareCircleTag(sd) ==
    [class |-> "Square", type |-> "circle", side |-> sd, center |-> Zero3D]

EnumSquare(sd) ==
    [class |-> "Square", type |-> "square", side |-> sd, center |-> Zero3D]

\* translate( Circle& c, v ) / translate( Square& s, v )
EnumTranslateCircle(shape, v) == [shape EXCEPT !.center = VAdd(shape.center, v)]

EnumTranslateSquare(shape, v) == [shape EXCEPT !.center = VAdd(shape.center, v)]

\* switch ( s->type ): each case static_casts to the class its tag names
EnumShapeTranslate(shape, v) ==
    CASE shape.type = "circle" -> EnumTranslateCircle(shape, v)
      [] shape.type = "square" -> EnumTranslateSquare(shape, v)
      [] OTHER -> shape

EnumTranslate(shapes, v) ==
    [i \in DOMAIN shapes |-> EnumShapeTranslate(shapes[i], v)]

(* object_oriented_solution *)
OOCircle(r) == [class |-> "Circle", radius |-> r, center |-> Zero3D]

OOSquare(sd) == [class |-> "Square", side |-> sd, center |-> Zero3D]

\* Circle::translate / Square::translate, virtual
OOShapeTranslate(shape, v) ==
    CASE shape.class = "Circle" -> [shape EXCEPT !.center = VAdd(shape.center, v)]
      [] shape.class = "Square" -> [shape EXCEPT !.center = VAdd(shape.center, v)]

OOTranslate(shapes, v) ==
    [i \in DOMAIN shapes |-> OOShapeTranslate(shapes[i], v)]

(* visitor_solution *)
VisitorCircle(r) == [class |-> "Circle", radius |-> r, center |-> Zero3D]

VisitorSquare(sd) == [class |-> "Square", side |-> sd, center |-> Zero3D]

\* Translate::visit( Circle& c ) const
VisitCircle(visitor, c) == [c EXCEPT !.center = VAdd(c.center, visitor.v)]

\* Translate::visit( Square& s ) const
VisitSquareTwice(visitor, sq) ==
    [sq EXCEPT !.center = VAdd(VAdd(sq.center, visitor.v), visitor.v)]

VisitSquare(visitor, sq) == [sq EXCEPT !.center = VAdd(sq.center, visitor.v)]

\* Circle::accept / Square::accept: v.visit( *this )
VisitorAccept(shape, visitor) ==
    CASE shape.class = "Circle" -> VisitCircle(visitor, shape)
      [] shape.class = "Square" -> VisitSquare(visitor, shape)

\* shape->accept( Translate{ v } )
VisitorTranslate(shapes, v) ==
    [i \in DOMAIN shapes |-> VisitorAccept(shapes[i], [v |-> v])]

(* std_variant_solution: Shape = std::variant<Circle,Square> *)
StdVariantCircle(r) ==
    [index |-> 0, class |-> "Circle", radius |-> r, center |-> Zero3D]

StdVariantSquare(sd) ==
    [index |-> 1, class |-> "Square", side |-> sd, center |-> Zero3D]

\* std::visit( Translate{ v }, s ): the overload of the alternative held
StdVariantVisit(visitor, shape) ==
    CASE shape.index = 0 -> [shape EXCEPT !.center = VAdd(shape.center, visitor.v)]
      [] shape.index = 1 -> [shape EXCEPT !.center = VAdd(shape.center, visitor.v)]

StdVariantTranslate(shapes, v) ==
    [i \in DOMAIN shapes |-> StdVariantVisit([v |-> v], shapes[i])]

(* mpark_variant_solution: Shape = mpark::variant<Circle,Square> *)
MparkVariantCircle(r) ==
    [index |-> 0, class |-> "Circle", radius |-> r, center |-> Zero3D]

MparkVariantSquare(sd) ==
    [index |-> 1, class |-> "Square", side |-> sd, center |-> Zero3D]

\* mpark::visit( Translate{ v }, s )
MparkVariantVisit(visitor, shape) ==
    CASE shape.index = 0 -> [shape EXCEPT !.center = VAdd(shape.center, visitor.v)]
      [] shape.index = 1 -> [shape EXCEPT !.center = VAdd(shape.center, visitor.v)]

MparkVariantTranslate(shapes, v) ==
    [i \in DOMAIN shapes |-> MparkVariantVisit([v |-> v], shapes[i])]

\* if( dist( rng ) < 0.5 ) push_back( Circle( dist( rng ) ) ) else Square
MakeShape(block, isCircle, size) ==
    CASE block = "classic" ->
            IF isCircle THEN ClassicCircle(size) ELSE ClassicSquare(size)
      [] block = "std_function" ->
            IF isCircle THEN StdFunctionCircle(size) ELSE StdFunctionSquare(size)
      [] block = "manual_function" ->
            IF isCircle THEN ManualCircle(size) ELSE ManualSquare(size)
      [] block = "enum" ->
            IF isCircle THEN EnumCircle(size) ELSE EnumSquare(size)
      [] block = "object_oriented" ->
            IF isCircle THEN OOCircle(size) ELSE OOSquare(size)
      [] block = "visitor" ->
            IF isCircle THEN VisitorCircle(size) ELSE VisitorSquare(size)
      [] block = "std_variant" ->
            IF isCircle THEN StdVariantCircle(size) ELSE StdVariantSquare(size)
      [] block = "mpark_variant" ->
            IF isCircle THEN MparkVariantCircle(size) ELSE MparkVariantSquare(size)

\* translate( shapes, v ) of the namespace in use
TranslateShapes(block, shapes, v) ==
    CASE block = "classic"         -> ClassicTranslate(shapes, v)
      [] block = "std_function"    -> StdFunctionTranslate(shapes, v)
      [] block = "manual_function" -> ManualTranslate(shapes, v)
      [] block = "enum"            -> EnumTranslate(shapes, v)
      [] block = "object_oriented" -> OOTranslate(shapes, v)
      [] block = "visitor"         -> VisitorTranslate(shapes, v)
      [] block = "std_variant"     -> StdVariantTranslate(shapes, v)
      [] block = "mpark_variant"   -> MparkVariantTranslate(shapes, v)

\* log[b]: the scene of block b when its timer starts and after each pass;
\* vlog[b]: the vectors of its passes.
InitBench ==
    /\ InitFun
    /\ lay = NoLayout
    /\ bench \in {[pc |-> "seed", seed |-> sd, b |-> 1, i |-> 0, s |-> 0, rng |-> 0,
                   shapes |-> <<>>,
                   log |-> [k \in DOMAIN Blocks |-> <<>>],
                   vlog |-> [k \in DOMAIN Blocks |-> <<>>]] : sd \in 0..MaxSeed}

\* rng.seed( seed ); Shapes shapes;
BenchSeed ==
    /\ bench.pc = "seed"
    /\ bench' = [bench EXCEPT !.pc = "build", !.rng = bench.seed % RngModulus,
                              !.shapes = <<>>, !.i = 0, !.s = 0]
    /\ UNCHANGED <<funVars, lay>>

\* for( size_t i=0UL; i<N; ++i ): one iteration
BenchBuild ==
    /\ bench.pc = "build"
    /\ bench.i < NShapes
    /\ LET kind == RngStep(bench.rng)
           size == RngStep(kind)
       IN bench' = [bench EXCEPT
                      !.rng = size,
                      !.shapes = Append(bench.shapes,
                                        MakeShape(Blocks[bench.b], kind < Half, size)),
                      !.i = bench.i + 1]
    /\ UNCHANGED <<funVars, lay>>

\* the loop ends; start = std::chrono::high_resolution_clock::now()
BenchStart ==
    /\ bench.pc = "build"
    /\ bench.i >= NShapes
    /\ bench' = [bench EXCEPT !.pc = "translate",
                              !.log[bench.b] = <<bench.shapes>>]
    /\ UNCHANGED <<funVars, lay>>

\* for( size_t s=0UL; s<steps; ++s ): translate( shapes, Vector3D{ dist( rng ), dist( rng ) } )
BenchTranslate ==
    /\ bench.pc = "translate"
    /\ bench.s < NSteps
    /\ LET x == RngStep(bench.rng)
           y == RngStep(x)
           v == Vector2(x, y)
           moved == TranslateShapes(Blocks[bench.b], bench.shapes, v)
       IN bench' = [bench EXCEPT
                      !.rng = y,
                      !.shapes = moved,
                      !.s = bench.s + 1,
                      !.log[bench.b] = Append(@, moved),
                      !.vlog[bench.b] = Append(@, v)]
    /\ UNCHANGED <<funVars, lay>>

\* end = now(); the runtime is printed and the block's scene goes out of scope
BenchEnd ==
    /\ bench.pc = "translate"
    /\ bench.s >= NSteps
    /\ bench' = [bench EXCEPT
                   !.pc = IF bench.b < Len(Blocks) THEN "seed" ELSE "exit",
                   !.b = IF bench.b < Len(Blocks) THEN bench.b + 1 ELSE bench.b,
                   !.shapes = <<>>]
    /\ UNCHANGED <<funVars, lay>>

NextBench == BenchSeed \/ BenchBuild \/ BenchStart \/ BenchTranslate \/ BenchEnd

SpecBench == InitBench /\ [][NextBench]_vars

\* What every solution's shape is: its kind, its radius or side, its center.
Canon(shape) ==
    [kind |-> shape.class,
     size |-> IF shape.class = "Circle" THEN shape.radius ELSE shape.side,
     center |-> shape.center]

CanonScene(shapes) == [i \in DOMAIN shapes |-> Canon(shapes[i])]

\* C9: with the same seed the solutions build the same sequence of shape kinds
\* and sizes and draw the same vectors, and after every pass each shape's
\* center is its center before the pass plus the pass's vector, with kind,
\* size, position and number of shapes unchanged: after any number of passes
\* all solutions hold the same scene.
C9_SolutionsEquivalent ==
    bench.pc # "off" =>
        /\ \A b1 \in DOMAIN Blocks, b2 \in DOMAIN Blocks :
              \A k \in 1..Len(bench.log[b1]) :
                  k <= Len(bench.log[b2]) =>
                      /\ CanonScene(bench.log[b1][k]) = CanonScene(bench.log[b2][k])
                      /\ k <= Len(bench.vlog[b1]) /\ k <= Len(bench.vlog[b2]) =>
                            bench.vlog[b1][k] = bench.vlog[b2][k]
        /\ \A b \in DOMAIN Blocks :
              \A k \in 1..Len(bench.vlog[b]) :
                  LET before == CanonScene(bench.log[b][k])
                      after == CanonScene(bench.log[b][k + 1])
                  IN /\ Len(before) = NShapes
                     /\ Len(after) = NShapes
                     /\ \A i \in 1..NShapes :
                           /\ after[i].kind = before[i].kind
                           /\ after[i].size = before[i].size
                           /\ after[i].center = VAdd(before[i].center, bench.vlog[b][k])
        /\ bench.pc = "translate" =>
              bench.shapes = bench.log[bench.b][Len(bench.log[bench.b])]

C9_Witness ==
    /\ bench.pc = "exit"
    /\ \A b \in DOMAIN Blocks : Len(bench.log[b]) = NSteps + 1
    /\ \E i \in 1..NShapes : bench.log[1][1][i].class = "Circle"
    /\ \E i \in 1..NShapes : bench.log[8][NSteps + 1][i].class = "Square"
    /\ CanonScene(bench.log[3][NSteps + 1]) = CanonScene(bench.log[6][NSteps + 1])
    /\ bench.log[1][NSteps + 1] # bench.log[1][1]

\* The cases of the switch in enum_solution::translate that a shape's tag
\* selects.
EnumCasesTaken(shape) == {t \in {"circle", "square"} : shape.type = t}

\* The tag names the class of the object it is stored in.
EnumTagIsClass(shape) ==
    /\ shape.type = "circle" <=> shape.class = "Circle"
    /\ shape.type = "square" <=> shape.class = "Square"

EnumBlock == CHOOSE k \in DOMAIN Blocks : Blocks[k] = "enum"

\* C11: in enum_solution, in the scene being built and translated and in the
\* scene before and after every pass, each shape's type tag is circle exactly
\* when the object is a Circle and square exactly when it is a Square, so the
\* static_cast of the case taken targets the object's own class, and each
\* shape is handled by exactly one case of the switch.
C11_EnumTagMatchesType ==
    bench.pc # "off" =>
        /\ Blocks[bench.b] = "enum" =>
              \A i \in DOMAIN bench.shapes :
                  /\ EnumTagIsClass(bench.shapes[i])
                  /\ Cardinality(EnumCasesTaken(bench.shapes[i])) = 1
        /\ \A k \in DOMAIN bench.log[EnumBlock] :
              \A i \in DOMAIN bench.log[EnumBlock][k] :
                  /\ EnumTagIsClass(bench.log[EnumBlock][k][i])
                  /\ Cardinality(EnumCasesTaken(bench.log[EnumBlock][k][i])) = 1

C11_Witness ==
    /\ bench.pc = "translate"
    /\ Blocks[bench.b] = "enum"
    /\ bench.s = NSteps
    /\ \E i \in DOMAIN bench.shapes :
          bench.shapes[i].type = "circle" /\ bench.shapes[i].class = "Circle"
    /\ \E i \in DOMAIN bench.shapes :
          bench.shapes[i].type = "square" /\ bench.shapes[i].class = "Square"
    /\ \A i \in DOMAIN bench.shapes : bench.shapes[i].center # Zero3D

\* The sum of the x (of the y) components of the first n vectors of vs.
RECURSIVE SumX(_, _)
SumX(vs, n) == IF n = 0 THEN 0 ELSE SumX(vs, n - 1) + vs[n].x

RECURSIVE SumY(_, _)
SumY(vs, n) == IF n = 0 THEN 0 ELSE SumY(vs, n - 1) + vs[n].y

\* C12: every translation vector is made of two consecutive values of the
\* generator, x then y, with z = 0; every shape's center starts at (0,0,0);
\* so in every solution, after any number of passes, each center's z is 0
\* and its x and y are the sums of the x and y of the vectors so far.
C12_ZStaysZero ==
    bench.pc # "off" =>
        /\ \A b \in DOMAIN Blocks :
              \A k \in DOMAIN bench.vlog[b] :
                  /\ bench.vlog[b][k].z = 0
                  /\ bench.vlog[b][k].y = RngStep(bench.vlog[b][k].x)
                  /\ k > 1 => bench.vlog[b][k].x = RngStep(bench.vlog[b][k - 1].y)
        /\ \A b \in DOMAIN Blocks :
              \A k \in DOMAIN bench.log[b] :
                  \A i \in DOMAIN bench.log[b][k] :
                      LET center == bench.log[b][k][i].center
                      IN /\ center.z = 0
                         /\ center.x = SumX(bench.vlog[b], k - 1)
                         /\ center.y = SumY(bench.vlog[b], k - 1)
        /\ \A i \in DOMAIN bench.shapes :
              /\ bench.shapes[i].center.z = 0
              /\ bench.pc = "build" => bench.shapes[i].center = Zero3D
              /\ bench.pc = "translate" =>
                    /\ bench.shapes[i].center.x = SumX(bench.vlog[bench.b], bench.s)
                    /\ bench.shapes[i].center.y = SumY(bench.vlog[bench.b], bench.s)

C12_Witness ==
    /\ bench.pc = "translate"
    /\ bench.b = Len(Blocks)
    /\ bench.s = NSteps
    /\ Len(bench.shapes) = NShapes
    /\ \A i \in DOMAIN bench.shapes :
          /\ bench.shapes[i].center.x > 0
          /\ bench.shapes[i].center.y > 0
          /\ bench.shapes[i].center.z = 0
    /\ \A b \in DOMAIN Blocks : Len(bench.vlog[b]) = NSteps

(***************************************************************************)
(* Properties of the Function container, under Spec                        *)
(***************************************************************************)
\* What container a does when called, for every argument tuple, read from
\* the given memory.
Behaviour(buf, pim, a) ==
    [x \in Targets \X Vectors |-> ModelCall(buf[pim[a]], x[1], x[2])]

SameBehaviour(buf, pim, a, b) ==
    /\ buf[pim[a]].live
    /\ buf[pim[b]].live
    /\ buf[pim[a]].vptr = buf[pim[b]].vptr
    /\ Behaviour(buf, pim, a) = Behaviour(buf, pim, b)

Pids == 1..Len(destroyCount)

\* C1: invoking a container forwards the arguments to the stored copy of the
\* callable f it was built from: the call's outcome (return value and effect
\* on the argument passed by reference) is that of f( args ), and the call
\* leaves the container as it was (same payload, same dispatch type).
C1_InvokeForwards ==
    [][\A c \in Containers, t \in Targets, v \in Vectors :
          Invoke(c, t, v) =>
              /\ ret'.out = FnCall(origin[c], t, v)
              /\ buffer' = buffer
              /\ pimpl' = pimpl
              /\ life' = life]_vars

C1_Witness ==
    /\ ret.c # Null
    /\ origin[ret.c].type = "Offset"
    /\ ret.out.target = ret.target + ret.v + origin[ret.c].state

\* C2 (as claimed): at every moment, a copy-assign in progress included, each
\* constructed and not yet destroyed container has a live payload in its own
\* buffer, reachable through pimpl_.
C2_AlwaysOnePayload ==
    \A c \in Containers :
        life[c] = "alive" => pimpl[c] = BufferOf(c) /\ buffer[pimpl[c]].live

\* C2 (amended): a constructed and not yet destroyed container has exactly one
\* live payload in its own buffer, reachable through pimpl_, at every moment
\* except between the pimpl_->~Concept() and the clone of an operator= call on
\* it, where its buffer holds no live payload; a container that is not alive
\* holds none; and a destroyed container stays destroyed.
C2_InAssignWindow(c) == frame.pc = "clone" /\ frame.self = c

C2_OnePayloadOutsideAssign ==
    /\ [](\A c \in Containers :
            /\ life[c] = "alive" =>
                  /\ pimpl[c] = BufferOf(c)
                  /\ buffer[pimpl[c]].live <=> ~C2_InAssignWindow(c)
            /\ life[c] # "alive" => ~buffer[BufferOf(c)].live)
    /\ [][\A c \in Containers :
            /\ life[c] = "destroyed" => life'[c] = "destroyed"
            /\ life[c] = "alive" => life'[c] \in {"alive", "destroyed"}]_vars

C2_Witness ==
    /\ frame.pc = "clone"
    /\ life[frame.self] = "alive"
    /\ ~buffer[pimpl[frame.self]].live
    /\ buffer[pimpl[frame.f]].live

C4_CopyPreservesBehaviour ==
    [][/\ \A src \in Containers :
             CopyConstruct(src) =>
                 /\ SameBehaviour(buffer', pimpl', Min(Fresh), src)
                 /\ buffer'[pimpl[src]] = buffer[pimpl[src]]
       /\ \A dst \in Containers, src \in Containers :
             AssignCall(dst, src) => buffer'[pimpl[src]] = buffer[pimpl[src]]
       /\ (frame.pc # "idle" /\ frame.arg \notin {Null, frame.self}) =>
             /\ buffer'[pimpl[frame.arg]] = buffer[pimpl[frame.arg]]
             /\ life'[frame.arg] = "alive"
       /\ (AssignReturn /\ frame.arg # Null) =>
             /\ SameBehaviour(buffer', pimpl', frame.self, frame.arg)
             /\ Behaviour(buffer', pimpl', frame.arg) = Behaviour(buffer, pimpl, frame.arg)]_vars

C4_Witness ==
    /\ frame.pc = "return"
    /\ frame.arg \notin {Null, frame.self}
    /\ frame.old.vptr = "Offset"
    /\ buffer[pimpl[frame.self]].vptr = "Negate"
    /\ SameBehaviour(buffer, pimpl, frame.self, frame.arg)

\* C5: c = c.  Throughout the call the source of the clone is the by-value
\* parameter, a container other than c holding a live payload; no payload is
\* destroyed twice; and when the clone is done c holds one live payload of the
\* type and with the behaviour of the payload it held when the call began.
C5_SelfAssign == frame.pc # "idle" /\ frame.arg = frame.self

C5_SelfAssignSafe ==
    C5_SelfAssign =>
        /\ frame.f # frame.self
        /\ life[frame.f] = "alive"
        /\ buffer[pimpl[frame.f]].live
        /\ \A p \in Pids : destroyCount[p] <= 1
        /\ frame.pc = "return" =>
              /\ buffer[pimpl[frame.self]].live
              /\ buffer[pimpl[frame.self]].pid # frame.old.pid
              /\ buffer[pimpl[frame.self]].vptr = frame.old.vptr
              /\ \A t \in Targets, v \in Vectors :
                    ModelCall(buffer[pimpl[frame.self]], t, v) = ModelCall(frame.old, t, v)

C5_Witness ==
    /\ C5_SelfAssign
    /\ frame.pc = "return"
    /\ frame.old.vptr = "Offset"
    /\ buffer[pimpl[frame.self]].live

\* C7: every container's pimpl_ points into its own buffer, so no two
\* containers share a payload; and a step changes the buffer of a container
\* that stays alive only when it is the pimpl_->~Concept() or the clone of an
\* operator= on that very container: destroying or reassigning the source of
\* a copy changes nothing in the copy.
C7_NoSharedPayload ==
    /\ [](\A c \in Containers : life[c] # "unborn" => pimpl[c] = BufferOf(c))
    /\ [](\A c \in Alive, d \in Alive : c # d => pimpl[c] # pimpl[d])
    /\ [][\A d \in Containers :
            (life[d] = "alive" /\ life'[d] = "alive" /\ buffer'[d] # buffer[d]) =>
                (frame.self = d /\ frame.pc \in {"destroy", "clone"})]_vars

C7_Witness ==
    /\ life[1] = "destroyed"
    /\ life[2] = "alive"
    /\ origin[1] = origin[2]
    /\ attempt.outcome = "ok"
    /\ pimpl[2] = BufferOf(2)
    /\ buffer[pimpl[2]].live
    /\ ~buffer[pimpl[1]].live

\* C8: a callable is accepted by Function( Fn ) exactly when sizeof(Fn) <= N;
\* the only other outcome is the static_assert; and no buffer ever holds a
\* payload whose callable is larger than N.
C8_OversizedRejected ==
    /\ attempt.outcome \in {"none", "ok", "static_assert"}
    /\ attempt.outcome = "ok" => Sizeof(attempt.fn.type) <= CapacityN
    /\ attempt.outcome = "static_assert" => Sizeof(attempt.fn.type) > CapacityN
    /\ \A c \in Containers :
          buffer[c].live =>
              /\ buffer[c].vptr \in FnTypes
              /\ Sizeof(buffer[c].vptr) <= CapacityN

C8_Witness ==
    /\ attempt.outcome = "static_assert"
    /\ attempt.fn.type = "Pair"
    /\ \E c \in Containers : buffer[c].live /\ Sizeof(buffer[c].vptr) = CapacityN

\* C10: in operator=, the destination's payload is destroyed before the clone
\* is written: when the clone is about to run the destination's buffer holds
\* no live payload and the parameter's payload is live; a payload is only ever
\* placed in a buffer that holds no live payload.
C10_DestroyBeforeClone ==
    /\ [](frame.pc = "destroy" =>
            /\ buffer[pimpl[frame.self]].live
            /\ buffer[pimpl[frame.self]].pid = frame.old.pid)
    /\ [](frame.pc = "clone" =>
            /\ ~buffer[pimpl[frame.self]].live
            /\ buffer[pimpl[frame.self]].pid = frame.old.pid
            /\ life[frame.f] = "alive"
            /\ buffer[pimpl[frame.f]].live)
    /\ [](frame.pc = "return" =>
            /\ buffer[pimpl[frame.self]].live
            /\ buffer[pimpl[frame.self]].pid # frame.old.pid)
    /\ [][\A a \in Containers :
            buffer'[a].pid # buffer[a].pid => ~buffer[a].live]_vars

C10_Witness ==
    /\ frame.pc = "return"
    /\ destroyCount[frame.old.pid] = 1
    /\ buffer[pimpl[frame.self]].live
    /\ buffer[pimpl[frame.self]].pid = Len(destroyCount)

====
